---- MODULE Spec2Model ----
(***************************************************************************)
(* State-machine model of the storefront in src/app.py: the products       *)
(* table, the per-client session (cart, is_admin), the upload folder and   *)
(* the response of the last request.  One action per route handler.        *)
(***************************************************************************)
EXTENDS Integers, Sequences, FiniteSets, TLC

VARIABLES db, session, uploads, resp, pending

vars == <<db, session, uploads, resp, pending>>

(* ---------------------------- bounds ----------------------------------- *)
\* largest AUTOINCREMENT value the model lets the products table reach
MaxId == 7
\* largest quantity the model lets one cart entry reach
MaxQty == 2

(* --------------------------- configuration ----------------------------- *)
ADMIN_PASSWORD == "admin123"

Sessions == {"s1", "s2"}

(* ------------------------- text and numbers ---------------------------- *)
Char(s, i) == SubSeq(s, i, i)

IsSpace(c) == c \in {" ", "\t", "\n"}

RECURSIVE lstrip(_)
lstrip(s) ==
  IF Len(s) > 0 /\ IsSpace(Char(s, 1)) THEN lstrip(SubSeq(s, 2, Len(s))) ELSE s

RECURSIVE rstrip(_)
rstrip(s) ==
  IF Len(s) > 0 /\ IsSpace(Char(s, Len(s)))
  THEN rstrip(SubSeq(s, 1, Len(s) - 1)) ELSE s

\* str.strip()
strip(s) == rstrip(lstrip(s))

DigitChars == <<"0", "1", "2", "3", "4", "5", "6", "7", "8", "9">>

IsDigit(c) == \E i \in 1..10 : DigitChars[i] = c

DigitVal(c) == (CHOOSE i \in 1..10 : DigitChars[i] = c) - 1

AllDigits(s) == Len(s) > 0 /\ \A i \in 1..Len(s) : IsDigit(Char(s, i))

RECURSIVE DigitsVal(_)
DigitsVal(s) ==
  IF Len(s) = 0 THEN 0
  ELSE DigitsVal(SubSeq(s, 1, Len(s) - 1)) * 10 + DigitVal(Char(s, Len(s)))

\* str(n) for n >= 0
RECURSIVE str(_)
str(n) == IF n < 10 THEN DigitChars[n + 1]
          ELSE str(n \div 10) \o DigitChars[(n % 10) + 1]

\* int(text): surrounding whitespace, an optional sign, decimal digits;
\* anything else raises ValueError (ok = FALSE)
int(s) ==
  LET t    == strip(s)
      neg  == Len(t) > 0 /\ Char(t, 1) = "-"
      sgn  == Len(t) > 0 /\ Char(t, 1) \in {"-", "+"}
      body == IF sgn THEN SubSeq(t, 2, Len(t)) ELSE t
  IN IF AllDigits(body)
     THEN [ok |-> TRUE, val |-> IF neg THEN 0 - DigitsVal(body) ELSE DigitsVal(body)]
     ELSE [ok |-> FALSE, val |-> 0]

max(a, b) == IF a >= b THEN a ELSE b

\* position of the first "." in s, 0 when there is none
DotPos(s) ==
  IF \E i \in 1..Len(s) : Char(s, i) = "."
  THEN CHOOSE i \in 1..Len(s) :
         Char(s, i) = "." /\ \A j \in 1..(i - 1) : Char(s, j) # "."
  ELSE 0

\* float(text) for plain decimal literals [sign]digits[.digits]: the value is
\* sign * mant / 10^scale; anything else raises ValueError (ok = FALSE)
float(s) ==
  LET t    == strip(s)
      neg  == Len(t) > 0 /\ Char(t, 1) = "-"
      sgn  == Len(t) > 0 /\ Char(t, 1) \in {"-", "+"}
      body == IF sgn THEN SubSeq(t, 2, Len(t)) ELSE t
      dot  == DotPos(body)
      ip   == IF dot = 0 THEN body ELSE SubSeq(body, 1, dot - 1)
      fp   == IF dot = 0 THEN "" ELSE SubSeq(body, dot + 1, Len(body))
      ok   == /\ Len(ip) + Len(fp) > 0
              /\ \A i \in 1..Len(ip) : IsDigit(Char(ip, i))
              /\ \A i \in 1..Len(fp) : IsDigit(Char(fp, i))
  IN IF ok
     THEN [ok |-> TRUE, neg |-> neg, mant |-> DigitsVal(ip \o fp), scale |-> Len(fp)]
     ELSE [ok |-> FALSE, neg |-> FALSE, mant |-> 0, scale |-> 0]

RECURSIVE Pow10(_)
Pow10(n) == IF n = 0 THEN 1 ELSE 10 * Pow10(n - 1)

\* int(x * 100) for x = float(text): truncation toward zero.  The enumerated
\* price texts are dyadic (k/2), for which the binary64 product is exact.
int_float_100(x) ==
  LET m == (x.mant * 100) \div Pow10(x.scale)
  IN IF x.neg THEN 0 - m ELSE m

\* request.form.get(key, default)
form_get(form, key, default) == IF key \in DOMAIN form THEN form[key] ELSE default

EmptyForm == [k \in {} |-> ""]

(* ------------------------------ database ------------------------------- *)
\* the products table and its sqlite_sequence entry, before any access
EmptyDb == [rows |-> [i \in {} |-> [name |-> "", price_cents |-> 0,
                                    description |-> "", image |-> ""]],
            seq |-> 0]

demo == << [name |-> "Aurvic Tee", price_cents |-> 1999,
            description |-> "Premium cotton T-shirt with minimalist logo.",
            image |-> "tee.jpg"],
           [name |-> "Aurvic Hoodie", price_cents |-> 4999,
            description |-> "Cozy hoodie for everyday adventures.",
            image |-> "hoodie.jpg"],
           [name |-> "Aurvic Cap", price_cents |-> 1499,
            description |-> "Adjustable cap with embroidered monogram.",
            image |-> "cap.jpg"] >>

\* variant: a plain rowid, the id after the largest one now in the table
insert_rowid(d, row) ==
  LET top == IF DOMAIN d.rows = {} THEN 0
             ELSE CHOOSE i \in DOMAIN d.rows : \A j \in DOMAIN d.rows : j <= i
  IN [rows |-> [i \in DOMAIN d.rows \cup {top + 1} |->
                  IF i = top + 1 THEN row ELSE d.rows[i]],
      seq  |-> max(d.seq, top + 1)]

\* INSERT INTO products(...): AUTOINCREMENT takes the id after the largest
\* one ever used in the table
insert(d, row) ==
  [rows |-> [i \in DOMAIN d.rows \cup {d.seq + 1} |->
               IF i = d.seq + 1 THEN row ELSE d.rows[i]],
   seq  |-> d.seq + 1]

\* DELETE FROM products WHERE id = ?
delete(d, pid) ==
  [rows |-> [i \in DOMAIN d.rows \ {pid} |-> d.rows[i]], seq |-> d.seq]

RECURSIVE insert_all(_, _)
insert_all(d, rs) ==
  IF rs = <<>> THEN d ELSE insert_all(insert(d, Head(rs)), Tail(rs))

\* variant: the last demo row is not seeded
init_db_short(d) ==
  IF Cardinality(DOMAIN d.rows) = 0
  THEN insert_all(d, SubSeq(demo, 1, Len(demo) - 1)) ELSE d

\* init_db(): create the table if missing, seed the demo rows if it is empty
init_db(d) == IF Cardinality(DOMAIN d.rows) = 0 THEN insert_all(d, demo) ELSE d

\* SELECT * FROM products WHERE id = ? with an integer parameter
HasRow(d, pid) == pid \in DOMAIN d.rows

\* the same SELECT with a text parameter: the INTEGER affinity of the id
\* column converts a numeric text to an integer before comparing
TextId(key) == LET n == int(key) IN IF n.ok THEN n.val ELSE 0 - 1

(* ------------------------------- cart ---------------------------------- *)
EmptyCart == [k \in {} |-> 0]

\* variant: an entry whose product is gone is kept as an empty line
cart_items_step_keep(d, cart, acc, pid) ==
  IF HasRow(d, TextId(pid))
  THEN LET row      == d.rows[TextId(pid)]
           subtotal == row.price_cents * cart[pid]
       IN [items |-> Append(acc.items, [product |-> TextId(pid), row |-> row,
                                        qty |-> cart[pid], subtotal |-> subtotal]),
           total |-> acc.total + subtotal]
  ELSE [items |-> Append(acc.items, [product |-> TextId(pid), row |-> demo[1],
                                     qty |-> cart[pid], subtotal |-> 0]),
        total |-> acc.total]

\* variant: the total grows by the unit price, whatever the quantity
cart_items_step_unit(d, cart, acc, pid) ==
  IF HasRow(d, TextId(pid))
  THEN LET row      == d.rows[TextId(pid)]
           subtotal == row.price_cents * cart[pid]
       IN [items |-> Append(acc.items, [product |-> TextId(pid), row |-> row,
                                        qty |-> cart[pid], subtotal |-> subtotal]),
           total |-> acc.total + row.price_cents]
  ELSE acc

\* one pass of the loop body of cart_items for cart key pid
cart_items_step(d, cart, acc, pid) ==
  IF HasRow(d, TextId(pid))
  THEN LET row      == d.rows[TextId(pid)]
           subtotal == row.price_cents * cart[pid]
       IN [items |-> Append(acc.items, [product |-> TextId(pid), row |-> row,
                                        qty |-> cart[pid], subtotal |-> subtotal]),
           total |-> acc.total + subtotal]
  ELSE acc

RECURSIVE cart_items_loop(_, _, _, _)
cart_items_loop(d, cart, keys, acc) ==
  IF keys = {} THEN acc
  ELSE LET pid == CHOOSE k \in keys : TRUE
       IN cart_items_loop(d, cart, keys \ {pid}, cart_items_step(d, cart, acc, pid))

\* cart_items(): the line items and the total of a cart against the table
cart_items(d, cart) ==
  cart_items_loop(d, cart, DOMAIN cart, [items |-> <<>>, total |-> 0])

(* ------------------------------ responses ------------------------------ *)
NoItems == [items |-> <<>>, total |-> 0]

\* what a handler hands back: kind is "render", "redirect", "abort" (an HTTP
\* error raised with abort()) or "exception" (an exception no handler catches)
Out(kind, target, flash, body, order_id) ==
  [kind |-> kind, target |-> target, flash |-> flash,
   items |-> body.items, total |-> body.total, order_id |-> order_id]

Render(template, flash, body) == Out("render", template, flash, body, 0)

Redirect(endpoint, flash) == Out("redirect", endpoint, flash, NoItems, 0)

Abort404 == Out("abort", "404", FALSE, NoItems, 0)

Raised(exc) == Out("exception", exc, FALSE, NoItems, 0)

(* ------------------------------ storefront ----------------------------- *)
\* index(): init_db() runs on every listing request; the product list handed
\* to the template is read-only and is not part of the response record
index(d) == [db |-> init_db(d), out |-> Render("index.html", FALSE, NoItems)]

\* product_detail(pid)
product_detail(d, pid) ==
  IF ~HasRow(d, pid) THEN Abort404
  ELSE Render("product_detail.html", FALSE, NoItems)

\* cart_view()
cart_view(d, sess) == Render("cart.html", FALSE, cart_items(d, sess.cart))

\* variant: the quantity is taken as sent
cart_add_qty_raw(v) == v

\* qty = max(1, int(request.form.get("qty", 1)))
cart_add_qty(v) == max(1, v)

\* variant: the quantity replaces the one already in the cart
cart_put_replace(cart, pid, qty) ==
  [k \in DOMAIN cart \cup {str(pid)} |-> IF k = str(pid) THEN qty ELSE cart[k]]

\* cart[str(pid)] = cart.get(str(pid), 0) + qty
cart_put(cart, pid, qty) ==
  [k \in DOMAIN cart \cup {str(pid)} |->
     IF k = str(pid)
     THEN (IF k \in DOMAIN cart THEN cart[k] ELSE 0) + qty
     ELSE cart[k]]

\* variant: the product is not looked up before it is put in the cart
cart_add_unchecked(d, sess, pid, form) ==
  LET q == IF "qty" \in DOMAIN form THEN int(form["qty"])
           ELSE [ok |-> TRUE, val |-> 1]
  IN IF ~q.ok THEN [session |-> sess, out |-> Raised("ValueError")]
     ELSE [session |-> [sess EXCEPT !.cart = cart_put(sess.cart, pid, cart_add_qty(q.val))],
           out |-> Redirect("cart_view", TRUE)]

\* cart_add(pid)
cart_add(d, sess, pid, form) ==
  LET q == IF "qty" \in DOMAIN form THEN int(form["qty"])
           ELSE [ok |-> TRUE, val |-> 1]
  IN IF ~HasRow(d, pid) THEN [session |-> sess, out |-> Abort404]
     ELSE IF ~q.ok THEN [session |-> sess, out |-> Raised("ValueError")]
     ELSE [session |-> [sess EXCEPT !.cart = cart_put(sess.cart, pid, cart_add_qty(q.val))],
           out |-> Redirect("cart_view", TRUE)]

\* variant: one unit is taken off, the entry goes when none is left
cart_pop_decrement(cart, pid) ==
  [k \in {j \in DOMAIN cart : j # str(pid) \/ cart[j] > 1} |->
     IF k = str(pid) THEN cart[k] - 1 ELSE cart[k]]

\* cart.pop(str(pid), None)
cart_pop(cart, pid) == [k \in DOMAIN cart \ {str(pid)} |-> cart[k]]

\* cart_remove(pid)
cart_remove(sess, pid) ==
  [session |-> [sess EXCEPT !.cart = cart_pop(sess.cart, pid)],
   out |-> Redirect("cart_view", TRUE)]

\* variant: the cart is emptied before its total is taken
checkout_clear_first(d, sess, method, form, now) ==
  LET body    == cart_items(d, sess.cart)
      name    == strip(form_get(form, "name", ""))
      email   == strip(form_get(form, "email", ""))
      address == strip(form_get(form, "address", ""))
  IN IF method = "POST"
     THEN IF ~(name # "" /\ email # "" /\ address # "")
          THEN [session |-> sess, out |-> Redirect("checkout", TRUE)]
          ELSE [session |-> [sess EXCEPT !.cart = EmptyCart],
                out |-> Out("render", "order_success.html", FALSE,
                            [items |-> <<>>, total |-> cart_items(d, EmptyCart).total], now)]
     ELSE [session |-> sess, out |-> Render("checkout.html", FALSE, body)]

\* variant: the three fields are tested as sent, without strip()
checkout_unstripped(d, sess, method, form, now) ==
  LET body    == cart_items(d, sess.cart)
      name    == form_get(form, "name", "")
      email   == form_get(form, "email", "")
      address == form_get(form, "address", "")
  IN IF method = "POST"
     THEN IF ~(name # "" /\ email # "" /\ address # "")
          THEN [session |-> sess, out |-> Redirect("checkout", TRUE)]
          ELSE [session |-> [sess EXCEPT !.cart = EmptyCart],
                out |-> Out("render", "order_success.html", FALSE,
                            [items |-> <<>>, total |-> body.total], now)]
     ELSE [session |-> sess, out |-> Render("checkout.html", FALSE, body)]

\* checkout(); now is the clock reading the order id is taken from
checkout(d, sess, method, form, now) ==
  LET body    == cart_items(d, sess.cart)
      name    == strip(form_get(form, "name", ""))
      email   == strip(form_get(form, "email", ""))
      address == strip(form_get(form, "address", ""))
  IN IF method = "POST"
     THEN IF ~(name # "" /\ email # "" /\ address # "")
          THEN [session |-> sess, out |-> Redirect("checkout", TRUE)]
          ELSE [session |-> [sess EXCEPT !.cart = EmptyCart],
                out |-> Out("render", "order_success.html", FALSE,
                            [items |-> <<>>, total |-> body.total], now)]
     ELSE [session |-> sess, out |-> Render("checkout.html", FALSE, body)]

(* -------------------------------- admin -------------------------------- *)
\* variant: a wrong password logs the session out
admin_login_resets(sess, method, form) ==
  IF method = "POST" /\ form_get(form, "password", "") = ADMIN_PASSWORD
  THEN [session |-> [sess EXCEPT !.is_admin = TRUE],
        out |-> Redirect("admin_products", FALSE)]
  ELSE [session |-> [sess EXCEPT !.is_admin = (method # "POST") /\ sess.is_admin],
        out |-> Render("admin_login.html", method = "POST", NoItems)]

\* admin_login()
admin_login(sess, method, form) ==
  IF method = "POST" /\ form_get(form, "password", "") = ADMIN_PASSWORD
  THEN [session |-> [sess EXCEPT !.is_admin = TRUE],
        out |-> Redirect("admin_products", FALSE)]
  ELSE [session |-> sess,
        out |-> Render("admin_login.html", method = "POST", NoItems)]

\* variant: the gate lets every session through
admin_required_open(sess) == TRUE

\* admin_required()
admin_required(sess) == IF ~sess.is_admin THEN FALSE ELSE TRUE

\* admin_products()
admin_products(sess) ==
  IF ~admin_required(sess) THEN Redirect("admin_login", FALSE)
  ELSE Render("admin_products.html", FALSE, NoItems)

(* werkzeug.utils.secure_filename, for ASCII names *)
SafeChars ==
  {"a", "b", "c", "d", "e", "f", "g", "h", "i", "j", "k", "l", "m",
   "n", "o", "p", "q", "r", "s", "t", "u", "v", "w", "x", "y", "z",
   "A", "B", "C", "D", "E", "F", "G", "H", "I", "J", "K", "L", "M",
   "N", "O", "P", "Q", "R", "S", "T", "U", "V", "W", "X", "Y", "Z",
   "0", "1", "2", "3", "4", "5", "6", "7", "8", "9", "_", ".", "-"}

\* every path separator becomes a space
RECURSIVE sep_to_space(_)
sep_to_space(s) ==
  IF Len(s) = 0 THEN ""
  ELSE (IF Char(s, 1) = "/" THEN " " ELSE Char(s, 1)) \o sep_to_space(SubSeq(s, 2, Len(s)))

\* "_".join(s.split()) for s without leading or trailing whitespace
RECURSIVE join_words(_)
join_words(s) ==
  IF Len(s) = 0 THEN ""
  ELSE IF IsSpace(Char(s, 1))
       THEN (IF IsSpace(Char(s, 2)) THEN "" ELSE "_") \o join_words(SubSeq(s, 2, Len(s)))
       ELSE Char(s, 1) \o join_words(SubSeq(s, 2, Len(s)))

RECURSIVE keep_safe(_)
keep_safe(s) ==
  IF Len(s) = 0 THEN ""
  ELSE (IF Char(s, 1) \in SafeChars THEN Char(s, 1) ELSE "") \o keep_safe(SubSeq(s, 2, Len(s)))

\* str.strip("._")
RECURSIVE strip_dots(_)
strip_dots(s) ==
  IF Len(s) > 0 /\ Char(s, 1) \in {".", "_"} THEN strip_dots(SubSeq(s, 2, Len(s)))
  ELSE IF Len(s) > 0 /\ Char(s, Len(s)) \in {".", "_"}
       THEN strip_dots(SubSeq(s, 1, Len(s) - 1))
       ELSE s

secure_filename(filename) ==
  strip_dots(keep_safe(join_words(strip(sep_to_space(filename)))))

\* admin_products_add(); ups is the content of the upload folder
admin_products_add(d, sess, ups, form, files) ==
  LET name        == strip(form_get(form, "name", ""))
      x           == float(form_get(form, "price", "0"))
      price       == int_float_100(x)
      description == strip(form_get(form, "description", ""))
      has_image   == "image" \in DOMAIN files /\ files["image"] # ""
      image_name  == IF has_image THEN secure_filename(files["image"]) ELSE ""
      saved       == IF has_image THEN ups \cup {image_name} ELSE ups
  IN IF ~admin_required(sess)
     THEN [db |-> d, uploads |-> ups, out |-> Redirect("admin_login", FALSE)]
     ELSE IF ~x.ok
     THEN [db |-> d, uploads |-> ups, out |-> Raised("ValueError")]
     ELSE IF name = ""
     THEN [db |-> d, uploads |-> saved, out |-> Redirect("admin_products", TRUE)]
     ELSE [db |-> insert(d, [name |-> name, price_cents |-> price,
                             description |-> description, image |-> image_name]),
           uploads |-> saved, out |-> Redirect("admin_products", TRUE)]

\* admin_products_delete(pid)
admin_products_delete(d, sess, pid) ==
  IF ~admin_required(sess)
  THEN [db |-> d, out |-> Redirect("admin_login", FALSE)]
  ELSE [db |-> delete(d, pid), out |-> Redirect("admin_products", TRUE)]

(* ------------------------------ requests ------------------------------- *)
\* the product ids the requests name: the last demo product and the first
\* product created after the demo products
Pids == {Len(demo), Len(demo) + 1}

\* s1 is a customer's browser: it shops and may try the admin pages, but its
\* user does not know the admin password; s2 is the shop operator's browser
Shoppers == {"s1"}

Operators == {"s2"}

Field(k, v) == [x \in {k} |-> v]

AddForms == {EmptyForm, Field("qty", "2"), Field("qty", "-5"),
             Field("qty", "0"), Field("qty", "abc")}

Shipping(n, e, a) == [k \in {"name", "email", "address"} |->
                       IF k = "name" THEN n ELSE IF k = "email" THEN e ELSE a]

CheckoutForms == {Shipping(" Ann ", "a@b.c", "1 Main St"),
                  Shipping("  ", "a@b.c", "1 Main St"),
                  Shipping("Ann", "", "1 Main St"),
                  Field("name", "Ann") @@ Field("email", "a@b.c")}

LoginForms(s) ==
  IF s \in Operators
  THEN {Field("password", ADMIN_PASSWORD), Field("password", "letmein")}
  ELSE {Field("password", "letmein"), Field("password", " admin123")}

Product(n, p) == [k \in {"name", "price", "description"} |->
                   IF k = "name" THEN n ELSE IF k = "price" THEN p ELSE ""]

NoFiles == EmptyForm

\* the form and the uploaded file of a product insert request
ProductPosts == {[form |-> Product(" Mug ", "2.5"), files |-> NoFiles],
                 [form |-> Product("Mug", "-1.5"), files |-> Field("image", "../a b.jpg")],
                 [form |-> Product("Mug", "abc"), files |-> Field("image", "../a b.jpg")],
                 [form |-> Product("  ", "2.5"), files |-> Field("image", "../a b.jpg")]}

\* readings of the clock at checkout
Clock == {1700000000}

\* the request just served and what it was answered with
Response(op, s, method, pid, form, files, out) ==
  [op |-> op, sess |-> s, method |-> method, pid |-> pid, form |-> form,
   files |-> files, kind |-> out.kind, target |-> out.target,
   flash |-> out.flash, items |-> out.items, total |-> out.total,
   order_id |-> out.order_id]

\* the carts stay within the bounds of the model
CartsBounded(ss) ==
  \A s \in Sessions : \A k \in DOMAIN ss[s].cart : ss[s].cart[k] <= MaxQty

(* ------------------------------- machine ------------------------------- *)
\* shop.db as an earlier run left it: seeded on first use, then the first
\* two demo products deleted by the admin
StoredDb == delete(delete(init_db(EmptyDb), 1), 2)

\* no checkout request is being served
Idle == [phase |-> "idle", sess |-> "", form |-> EmptyForm, db |-> EmptyDb,
         session |-> [cart |-> EmptyCart, is_admin |-> FALSE], discarded |-> 0]

\* the application started by the __main__ block on that database file,
\* no client has a session cookie yet
Init ==
  /\ db = init_db(StoredDb)
  /\ session = [s \in Sessions |-> [cart |-> EmptyCart, is_admin |-> FALSE]]
  /\ uploads = {}
  /\ resp = Response("startup", "s1", "GET", 0, EmptyForm, EmptyForm,
                     Render("", FALSE, NoItems))
  /\ pending = Idle

Index(s) ==
  LET r == index(db)
  IN /\ r.db.seq <= MaxId
     /\ db' = r.db
     /\ resp' = Response("index", s, "GET", 0, EmptyForm, EmptyForm, r.out)
     /\ UNCHANGED <<session, uploads, pending>>

ProductDetail(s, pid) ==
  /\ resp' = Response("product_detail", s, "GET", pid, EmptyForm, EmptyForm,
                      product_detail(db, pid))
  /\ UNCHANGED <<db, session, uploads, pending>>

CartView(s) ==
  /\ resp' = Response("cart_view", s, "GET", 0, EmptyForm, EmptyForm,
                      cart_view(db, session[s]))
  /\ UNCHANGED <<db, session, uploads, pending>>

\* variant: one cart kept by the server for all clients
CartAdd_shared(s, pid, form) ==
  LET r == cart_add(db, session[s], pid, form)
  IN /\ CartsBounded([session EXCEPT ![s] = r.session])
     /\ session' = [t \in Sessions |-> [session[t] EXCEPT !.cart = r.session.cart]]
     /\ resp' = Response("cart_add", s, "POST", pid, form, EmptyForm, r.out)
     /\ UNCHANGED <<db, uploads, pending>>

CartAdd(s, pid, form) ==
  LET r == cart_add(db, session[s], pid, form)
  IN /\ CartsBounded([session EXCEPT ![s] = r.session])
     /\ session' = [session EXCEPT ![s] = r.session]
     /\ resp' = Response("cart_add", s, "POST", pid, form, EmptyForm, r.out)
     /\ UNCHANGED <<db, uploads, pending>>

CartRemove(s, pid) ==
  LET r == cart_remove(session[s], pid)
  IN /\ session' = [session EXCEPT ![s] = r.session]
     /\ resp' = Response("cart_remove", s, "POST", pid, EmptyForm, EmptyForm, r.out)
     /\ UNCHANGED <<db, uploads, pending>>

Checkout(s, method, form, now) ==
  LET r == checkout(db, session[s], method, form, now)
  IN /\ session' = [session EXCEPT ![s] = r.session]
     /\ resp' = Response("checkout", s, method, 0, form, EmptyForm, r.out)
     /\ UNCHANGED <<db, uploads, pending>>

AdminLogin(s, method, form) ==
  LET r == admin_login(session[s], method, form)
  IN /\ session' = [session EXCEPT ![s] = r.session]
     /\ resp' = Response("admin_login", s, method, 0, form, EmptyForm, r.out)
     /\ UNCHANGED <<db, uploads, pending>>

AdminProducts(s) ==
  /\ resp' = Response("admin_products", s, "GET", 0, EmptyForm, EmptyForm,
                      admin_products(session[s]))
  /\ UNCHANGED <<db, session, uploads, pending>>

AdminProductsAdd(s, form, files) ==
  LET r == admin_products_add(db, session[s], uploads, form, files)
  IN /\ r.db = db \/ r.db.seq + Len(demo) <= MaxId
     /\ db' = r.db
     /\ uploads' = r.uploads
     /\ resp' = Response("admin_products_add", s, "POST", 0, form, files, r.out)
     /\ UNCHANGED <<session, pending>>

AdminProductsDelete(s, pid) ==
  LET r == admin_products_delete(db, session[s], pid)
  IN /\ db' = r.db
     /\ resp' = Response("admin_products_delete", s, "POST", pid, EmptyForm,
                         EmptyForm, r.out)
     /\ UNCHANGED <<session, uploads, pending>>

Next ==
  \/ \E s \in Shoppers : Index(s)
  \/ \E s \in Shoppers, pid \in Pids : ProductDetail(s, pid)
  \/ \E s \in Shoppers : CartView(s)
  \/ \E s \in Shoppers, pid \in Pids, form \in AddForms : CartAdd(s, pid, form)
  \/ \E s \in Shoppers, pid \in Pids : CartRemove(s, pid)
  \/ \E s \in Shoppers : Checkout(s, "GET", EmptyForm, 0)
  \/ \E s \in Shoppers, form \in CheckoutForms, now \in Clock :
       Checkout(s, "POST", form, now)
  \/ \E s \in Sessions : AdminLogin(s, "GET", EmptyForm)
  \/ \E s \in Sessions : \E form \in LoginForms(s) : AdminLogin(s, "POST", form)
  \/ \E s \in Sessions : AdminProducts(s)
  \/ \E s \in Sessions, post \in ProductPosts :
       AdminProductsAdd(s, post.form, post.files)
  \/ \E s \in Sessions, pid \in Pids : AdminProductsDelete(s, pid)

Spec == Init /\ [][Next]_vars

(* ----------------------- several clients shopping ---------------------- *)
\* shop.db after the operator added a product to the stored catalog
ShopDb ==
  admin_products_add(init_db(StoredDb), [cart |-> EmptyCart, is_admin |-> TRUE],
                     {}, Product(" Mug ", "2.5"), NoFiles).db

\* the application started on that database file
InitShop ==
  /\ db = ShopDb
  /\ session = [s \in Sessions |-> [cart |-> EmptyCart, is_admin |-> FALSE]]
  /\ uploads = {}
  /\ resp = Response("startup", "s1", "GET", 0, EmptyForm, EmptyForm,
                     Render("", FALSE, NoItems))
  /\ pending = Idle

\* the requests that write a session, sent by both clients in any order
NextIso ==
  \/ \E s \in Sessions, pid \in Pids, form \in AddForms : CartAdd(s, pid, form)
  \/ \E s \in Sessions, pid \in Pids : CartRemove(s, pid)
  \/ \E s \in Sessions, form \in CheckoutForms, now \in Clock :
       Checkout(s, "POST", form, now)
  \/ \E s \in Sessions : \E form \in LoginForms(s) : AdminLogin(s, "POST", form)

SpecIso == InitShop /\ [][NextIso]_vars

(* ------------------- a checkout served in two steps -------------------- *)
\* the shipping forms sent to the checkout served in two steps
ShippingForms == {Shipping(" Ann ", "a@b.c", "1 Main St"),
                  Shipping("  ", "a@b.c", "1 Main St")}

\* POST /checkout up to its first line: the request carries the session
\* cookie as the browser holds it now, and cart_items() reads the catalog
CheckoutBegin(s, form) ==
  /\ pending.phase # "resolved"
  /\ pending' = [phase |-> "resolved", sess |-> s, form |-> form, db |-> db,
                 session |-> session[s], discarded |-> 0]
  /\ UNCHANGED <<db, session, uploads, resp>>

\* variant: the cart is resolved again when it is cleared
CheckoutFinish_fresh(now) ==
  LET s == pending.sess
      r == checkout(db, session[s], "POST", pending.form, now)
  IN /\ pending.phase = "resolved"
     /\ session' = [session EXCEPT ![s] = r.session]
     /\ resp' = Response("checkout", s, "POST", 0, pending.form, EmptyForm, r.out)
     /\ pending' = [Idle EXCEPT !.phase = "cleared", !.sess = s,
                                !.discarded = cart_items(db, session[s].cart).total]
     /\ UNCHANGED <<db, uploads>>

\* the rest of POST /checkout: the form is checked, the session the request
\* came with is written (flash() or session["cart"] = {}) and the response
\* sets it as the browser's cookie, over what other responses set meanwhile
CheckoutFinish(now) ==
  LET s == pending.sess
      r == checkout(pending.db, pending.session, "POST", pending.form, now)
  IN /\ pending.phase = "resolved"
     /\ session' = [session EXCEPT ![s] = r.session]
     /\ resp' = Response("checkout", s, "POST", 0, pending.form, EmptyForm, r.out)
     /\ pending' = [Idle EXCEPT !.phase = "cleared", !.sess = s,
                                !.discarded = cart_items(db, session[s].cart).total]
     /\ UNCHANGED <<db, uploads>>

\* a client's checkout in two steps, while the same client adds to the cart
\* from another tab and the operator deletes products
NextConc ==
  \/ \E s \in Shoppers, pid \in Pids : CartAdd(s, pid, EmptyForm)
  \/ \E s \in Shoppers, form \in ShippingForms : CheckoutBegin(s, form)
  \/ \E now \in Clock : CheckoutFinish(now)
  \/ \E s \in Operators : AdminLogin(s, "POST", Field("password", ADMIN_PASSWORD))
  \/ \E s \in Operators, pid \in Pids : AdminProductsDelete(s, pid)

SpecConc == InitShop /\ [][NextConc]_vars

(* ------------------------------ properties ----------------------------- *)
\* a form field is filled when it is sent and holds a non-blank character
Filled(form, k) ==
  k \in DOMAIN form /\ \E i \in 1..Len(form[k]) : ~IsSpace(Char(form[k], i))

AllFilled(form) == Filled(form, "name") /\ Filled(form, "email") /\ Filled(form, "address")

\* the integer a cart add request asks for (1 when no qty field is sent)
AskedQty(form) == IF "qty" \in DOMAIN form THEN int(form["qty"]).val ELSE 1

IntegerQty(form) == "qty" \in DOMAIN form => int(form["qty"]).ok

AtLeastOne(q) == IF q < 1 THEN 1 ELSE q

QtyOf(cart, k) == IF k \in DOMAIN cart THEN cart[k] ELSE 0

RECURSIVE SumSubtotals(_)
SumSubtotals(items) ==
  IF items = <<>> THEN 0 ELSE Head(items).subtotal + SumSubtotals(Tail(items))

\* the cart keys of a cart whose product is in the table
LiveKeys(d, cart) == {k \in DOMAIN cart : \E i \in DOMAIN d.rows : str(i) = k}

\* C1: in every reachable state every key present in a session's cart maps
\* to a quantity of at least 1
CartQuantitiesPositive ==
  \A s \in Sessions : \A k \in DOMAIN session[s].cart : session[s].cart[k] >= 1

\* a cart add asking for -5 went through and left an entry in the cart
CartQuantitiesPositiveWitness ==
  /\ resp.op = "cart_add" /\ resp.kind = "redirect"
  /\ resp.form = Field("qty", "-5")
  /\ str(resp.pid) \in DOMAIN session[resp.sess].cart

\* C2: a checkout submit with name, email and address all non-empty after
\* trimming leaves the session's cart empty and answers with the total the
\* cart resolved to just before the submit
CheckoutSuccessClearsCart ==
  [][ (resp'.op = "checkout" /\ resp'.method = "POST" /\ AllFilled(resp'.form))
      => /\ session'[resp'.sess].cart = EmptyCart
         /\ resp'.kind = "render" /\ resp'.target = "order_success.html"
         /\ resp'.order_id # 0
         /\ resp'.total = cart_items(db, session[resp'.sess].cart).total ]_vars

\* an order was confirmed for a cart that was worth something
CheckoutSuccessWitness ==
  /\ resp.op = "checkout" /\ resp.method = "POST" /\ AllFilled(resp.form)
  /\ resp.target = "order_success.html" /\ resp.total > 0
  /\ session[resp.sess].cart = EmptyCart

\* C3: a checkout submit with name, email or address empty after trimming is
\* answered with the validation notice and no order id, and leaves the cart,
\* the admin flag and the catalog as they were
CheckoutInvalidKeepsState ==
  [][ (resp'.op = "checkout" /\ resp'.method = "POST" /\ ~AllFilled(resp'.form))
      => /\ resp'.kind = "redirect" /\ resp'.target = "checkout" /\ resp'.flash
         /\ resp'.order_id = 0
         /\ session' = session
         /\ db' = db ]_vars

\* a submit with a blank name was turned down while the cart held something
CheckoutInvalidWitness ==
  /\ resp.op = "checkout" /\ resp.method = "POST"
  /\ "name" \in DOMAIN resp.form /\ ~Filled(resp.form, "name")
  /\ resp.kind = "redirect"
  /\ session[resp.sess].cart # EmptyCart

\* C4: a product insert or delete request from a session whose is_admin
\* flag is false never changes the products table
AdminGateKeepsCatalog ==
  [][ (resp'.op \in {"admin_products_add", "admin_products_delete"}
       /\ ~session[resp'.sess].is_admin)
      => db' = db ]_vars

\* a session that is not admin asked to delete a product that exists, after
\* the operator had already changed the catalog
AdminGateWitness ==
  /\ resp.op = "admin_products_delete" /\ ~session[resp.sess].is_admin
  /\ resp.pid \in DOMAIN db.rows
  /\ db # init_db(StoredDb)

ResolveSkipsDangling ==
  \A s \in Sessions :
    LET cart == session[s].cart
        r    == cart_items(db, cart)
    IN /\ Len(r.items) = Cardinality(LiveKeys(db, cart))
       /\ {str(r.items[i].product) : i \in 1..Len(r.items)} = LiveKeys(db, cart)
       /\ \A i \in 1..Len(r.items) : r.items[i].qty = cart[str(r.items[i].product)]
       /\ (resp.op = "cart_view" /\ resp.sess = s)
            => resp.kind = "render" /\ resp.items = r.items

\* the cart page was shown for a cart holding a deleted product next to one
\* that still exists
ResolveSkipsDanglingWitness ==
  /\ resp.op = "cart_view" /\ Len(resp.items) = 1
  /\ Cardinality(DOMAIN session[resp.sess].cart) = 2

\* C8: the total of a resolved cart is the sum of the subtotals of its items,
\* and each subtotal is the product's current price_cents times the quantity
TotalIsSumOfSubtotals ==
  \A s \in Sessions :
    LET r == cart_items(db, session[s].cart)
    IN /\ r.total = SumSubtotals(r.items)
       /\ \A i \in 1..Len(r.items) :
            r.items[i].subtotal
              = db.rows[r.items[i].product].price_cents * r.items[i].qty

\* the cart page showed two lines, one of them with quantity 2
TotalIsSumWitness ==
  /\ resp.op = "cart_view" /\ Len(resp.items) = 2
  /\ \E i \in 1..2 : resp.items[i].qty = 2
  /\ resp.total = SumSubtotals(resp.items)

\* C9: is_admin becomes true only by a login POST carrying the admin
\* password, and once true no request sets it back to false
AdminFlagOnlyByLogin ==
  [][ \A s \in Sessions :
        /\ session[s].is_admin => session'[s].is_admin
        /\ (~session[s].is_admin /\ session'[s].is_admin)
             => /\ resp'.op = "admin_login" /\ resp'.method = "POST"
                /\ resp'.sess = s
                /\ "password" \in DOMAIN resp'.form
                /\ resp'.form["password"] = ADMIN_PASSWORD ]_vars

\* an admin session sent a login with a wrong password and is still admin
AdminFlagWitness ==
  /\ resp.op = "admin_login" /\ resp.method = "POST"
  /\ resp.form # Field("password", ADMIN_PASSWORD)
  /\ session[resp.sess].is_admin

\* C10: every request that fails is answered with a redirect or a rendered
\* page and never ends in an exception nobody handles
NoUnhandledException == resp.kind # "exception"

\* the name and price of every row of the table
NamesAndPrices(d) == {<<d.rows[i].name, d.rows[i].price_cents>> : i \in DOMAIN d.rows}

\* C11: in every reachable state every product in the catalog has
\* price_cents >= 0, whatever prices the admin insert requests supplied
PricesNonNegative == \A i \in DOMAIN db.rows : db.rows[i].price_cents >= 0

\* C12: remove(cart, id) takes the key out and touches nothing else: it is a
\* no-op when the key is absent, a second remove changes nothing, and every
\* other key keeps its quantity
RemoveIdempotentFramed ==
  [][ resp'.op = "cart_remove"
      => LET old == session[resp'.sess].cart
             new == session'[resp'.sess].cart
             p   == str(resp'.pid)
         IN /\ DOMAIN new = DOMAIN old \ {p}
            /\ \A k \in DOMAIN new : new[k] = old[k]
            /\ p \notin DOMAIN old => new = old
            /\ cart_remove(session'[resp'.sess], resp'.pid).session.cart = new
            /\ \A s \in Sessions \ {resp'.sess} : session'[s] = session[s] ]_vars

\* a remove took a product out of a cart that keeps another entry
RemoveWitness ==
  /\ resp.op = "cart_remove"
  /\ str(resp.pid) \notin DOMAIN session[resp.sess].cart
  /\ \E k \in DOMAIN session[resp.sess].cart : session[resp.sess].cart[k] = 2

\* C13: a product insert with an empty name (after trimming) is turned down
\* with the state unchanged: no product is added and no uploaded file is
\* written
EmptyNameInsertKeepsState ==
  [][ (resp'.op = "admin_products_add" /\ ~Filled(resp'.form, "name"))
      => db' = db /\ uploads' = uploads ]_vars

\* C14: a storefront access on an empty catalog leaves exactly the 3 demo
\* products Aurvic Tee 1999, Aurvic Hoodie 4999, Aurvic Cap 1499 in it; an
\* access on a catalog that is not empty adds nothing
SeedingGivesThreeDemoProducts ==
  [][ resp'.op = "index"
      => IF DOMAIN db.rows = {}
         THEN /\ Cardinality(DOMAIN db'.rows) = 3
              /\ NamesAndPrices(db') = {<<"Aurvic Tee", 1999>>,
                                        <<"Aurvic Hoodie", 4999>>,
                                        <<"Aurvic Cap", 1499>>}
         ELSE db' = db ]_vars

\* the storefront was listed on an empty catalog and seeded it
SeedingWitness ==
  /\ resp.op = "index"
  /\ Cardinality(DOMAIN db.rows) = 3
  /\ \A i \in DOMAIN db.rows : i > Len(demo)

\* C15: once the catalog has been seeded and every product deleted, a later
\* storefront listing leaves the catalog empty
NoSecondSeeding ==
  [][ (resp'.op = "index" /\ db.seq >= Len(demo) /\ DOMAIN db.rows = {})
      => DOMAIN db'.rows = {} ]_vars

\* C16: product ids are unique and grow with every creation: the ids a
\* request creates are the ones right after the largest id ever used, an id
\* out of use never comes back, so a cart entry whose product was deleted
\* keeps resolving to nothing
IdsNeverReused ==
  [][ /\ \A i \in DOMAIN db.rows : i <= db.seq
      /\ db'.seq >= db.seq
      /\ DOMAIN db'.rows \ DOMAIN db.rows = (db.seq + 1)..(db'.seq)
      /\ \A i \in 1..db.seq : i \notin DOMAIN db.rows => i \notin DOMAIN db'.rows
      /\ \A s \in Sessions : \A k \in DOMAIN session[s].cart :
           k \notin LiveKeys(db, session[s].cart)
             => k \notin LiveKeys(db', session[s].cart) ]_vars

\* a product was created while a cart holds the id of a deleted product
IdsNeverReusedWitness ==
  /\ resp.op = "admin_products_add" /\ resp.kind = "redirect"
  /\ db.seq \in DOMAIN db.rows
  /\ \E s \in Sessions : \E k \in DOMAIN session[s].cart :
       k \notin LiveKeys(db, session[s].cart)

\* C17: sessions are isolated: a cart add, cart remove, checkout or login in
\* one client's session leaves the cart and the is_admin flag of every other
\* session unchanged, in whatever order the clients' requests arrive
SessionsIsolated ==
  [][ resp'.op \in {"cart_add", "cart_remove", "checkout", "admin_login"}
      => \A s \in Sessions \ {resp'.sess} : session'[s] = session[s] ]_vars

\* a client checked out while the other holds a cart and the admin flag
SessionsIsolatedWitness ==
  /\ resp.op = "checkout" /\ resp.target = "order_success.html"
  /\ resp.total > 0
  /\ \E s \in Sessions \ {resp.sess} :
       /\ session[s].is_admin
       /\ DOMAIN session[s].cart # {}

\* the checkout being served was confirmed: its form was complete
Confirming == pending.phase = "resolved" /\ AllFilled(pending.form)

\* C18: checkout is not atomic against another request on the same session:
\* the confirmed total is the one resolved when the request came in, the
\* clear empties the cart as the browser holds it when the response arrives,
\* and only when no cart add and no catalog delete came in between is the
\* confirmed total sure to be the total of the contents the clear discards
CheckoutNotAtomic ==
  [][ (Confirming /\ pending'.phase = "cleared")
      => /\ resp'.target = "order_success.html"
         /\ resp'.total = cart_items(pending.db, pending.session.cart).total
         /\ session'[pending.sess].cart = EmptyCart
         /\ pending'.discarded = cart_items(db, session[pending.sess].cart).total
         /\ (db = pending.db /\ session[pending.sess] = pending.session)
              => resp'.total = pending'.discarded ]_vars

\* an order was confirmed with a total that is not the total of the cart
\* contents the clear discarded
CheckoutNotAtomicWitness ==
  /\ pending.phase = "cleared"
  /\ resp.op = "checkout" /\ resp.target = "order_success.html"
  /\ resp.total # pending.discarded
  /\ session[pending.sess].cart = EmptyCart

====
